---- MODULE Spec2Model ----
(***************************************************************************)
(* rattomail: a local mail-delivery agent.  The model follows one          *)
(* invocation of rattomail::main (src/src/lib.rs) stage by stage: program  *)
(* name, command line, logging, configuration, target user, privilege      *)
(* drop, sender, recipient, mailbox path, Maildir directories, delivery.   *)
(* Strings are sequences of code points, so that is_plausible_string,      *)
(* Path::components and the header prefixes are computed, not assumed.     *)
(***************************************************************************)
EXTENDS Integers, Sequences, FiniteSets, TLC

(***************************************************************************)
(* Bounds of the model.                                                    *)
(***************************************************************************)
\* longest path, in chunks of PathChunks, given to parse_maildir_new_path
MaxPathChunks == 5
\* longest string, in characters of SampleChars, given to is_plausible_string
MaxStrLen == 3
\* longest message, in chunks of MsgChunks, given to write_message
MaxMsgChunks == 4
\* longest input, in chunks of HeaderChunks, given to process_existing_headers
MaxHeaderChunks == 4

(***************************************************************************)
(* Option<T>: None or Some(v).                                             *)
(***************************************************************************)
None == <<>>
Some(v) == <<v>>
IsSome(o) == Len(o) = 1
Get(o) == o[1]

(***************************************************************************)
(* Strings (code points).                                                  *)
(***************************************************************************)
S_root == <<114,111,111,116>>
S_toor == <<116,111,111,114>>
S_u == <<117>>
S_bob == <<98,111,98>>
S_rob == <<114,111,98>>
S_amy == <<97,109,121>>
S_ghost == <<103,104,111,115,116>>
S_jose == <<106,111,115,233>>
S_home == <<104,111,109,101>>
S_relative == <<114,101,108,97,116,105,118,101>>
S_a == <<97>>
S_slash == <<47>>
S_new == <<110,101,119>>
S_Maildir == <<77,97,105,108,100,105,114>>
S_dot == <<46>>
S_dotdot == <<46,46>>
S_old == <<111,108,100>>
S_addr == <<97,64,120>>
S_a_space_b == <<97,32,98>>
S_m == <<109>>
S_s == <<115>>
S_dash == <<45>>
S_dev_stderr == <<47,100,101,118,47,115,116,100,101,114,114>>
S_tmp_log == <<47,116>>
S_empty == <<>>
S_From == <<70,114,111,109,58,32>>
S_Date == <<68,97,116,101,58,32>>
S_Received_for == <<82,101,99,101,105,118,101,100,58,32,102,111,114,32>>
S_with_local == <<32,119,105,116,104,32,108,111,99,97,108,32,40,114,97,116,116,111,109,97,105,108,41,32,40,101,110,118,101,108,111,112,101,45,102,114,111,109,32>>
S_semi == <<41,59,32>>
S_LF == <<10>>
S_CRLF == <<13,10>>
S_CR == <<13>>
S_x == <<120>>
S_Received == <<82,101,99,101,105,118,101,100,58,32>>
S_hello == <<104,101,108,108,111,10>>
S_from_lower == <<102,114,111,109,58,32>>
S_From_colon == <<70,114,111,109,58>>
S_space == <<32>>

RECURSIVE Concat(_)
Concat(ss) == IF ss = <<>> THEN <<>> ELSE Head(ss) \o Concat(Tail(ss))

\* starts_with that takes a lower-case letter for its upper-case one
StartsWith_any_case(s, prefix) ==
    /\ Len(s) >= Len(prefix)
    /\ \A i \in 1..Len(prefix) :
          \/ s[i] = prefix[i]
          \/ prefix[i] \in 65..90 /\ s[i] = prefix[i] + 32

StartsWith(s, prefix) ==
    /\ Len(s) >= Len(prefix)
    /\ SubSeq(s, 1, Len(prefix)) = prefix

(***************************************************************************)
(* The account database, in lookup order (getpwnam / getpwuid return the   *)
(* first matching entry).                                                  *)
(***************************************************************************)
Passwd ==
    << [name |-> S_root, uid |-> 0,    gid |-> 0],
       [name |-> S_toor, uid |-> 0,    gid |-> 0],
       [name |-> S_u,    uid |-> 1000, gid |-> 1000],
       [name |-> S_bob,  uid |-> 1001, gid |-> 1001],
       [name |-> S_rob,  uid |-> 1001, gid |-> 1001],
       [name |-> S_amy,  uid |-> 1002, gid |-> 1000],
       [name |-> S_jose, uid |-> 1003, gid |-> 1003] >>

\* nix::unistd::User::from_name
User_from_name(name) ==
    LET hits == {i \in 1..Len(Passwd) : Passwd[i].name = name}
    IN  IF hits = {} THEN None
        ELSE Some(Passwd[CHOOSE i \in hits : \A j \in hits : i <= j])

\* nix::unistd::User::from_uid
User_from_uid(uid) ==
    LET hits == {i \in 1..Len(Passwd) : Passwd[i].uid = uid}
    IN  IF hits = {} THEN None
        ELSE Some(Passwd[CHOOSE i \in hits : \A j \in hits : i <= j])

\* nix::unistd::Uid::is_root
is_root(uid) == uid = 0

(***************************************************************************)
(* Process credentials and the id-setting system calls (Linux).  caps are  *)
(* the process's CAP_SETUID / CAP_SETGID; nofixup is the securebit         *)
(* SECBIT_NO_SETUID_FIXUP; deny is the set of system calls an LSM or       *)
(* seccomp policy refuses for the whole life of the process.               *)
(***************************************************************************)
AllCaps == {"CAP_SETUID", "CAP_SETGID"}

Cred(ru, eu, su, rg, eg, sg, gs, cs, nf, dn) ==
    [ruid |-> ru, euid |-> eu, suid |-> su,
     rgid |-> rg, egid |-> eg, sgid |-> sg,
     groups |-> gs, caps |-> cs, nofixup |-> nf, deny |-> dn]

\* may the process call setgroups(2)?
setgroups_ok(c) ==
    /\ "setgroups" \notin c.deny
    /\ "CAP_SETGID" \in c.caps

setgroups_do(c, gs) == [c EXCEPT !.groups = gs]

\* may the process call setresgid(r, e, s)?
setresgid_ok(c, r, e, s) ==
    /\ "setresgid" \notin c.deny
    /\ \/ "CAP_SETGID" \in c.caps
       \/ {r, e, s} \subseteq {c.rgid, c.egid, c.sgid}

setresgid_do(c, r, e, s) == [c EXCEPT !.rgid = r, !.egid = e, !.sgid = s]

\* may the process call setresuid(r, e, s)?
setresuid_ok(c, r, e, s) ==
    /\ "setresuid" \notin c.deny
    /\ \/ "CAP_SETUID" \in c.caps
       \/ {r, e, s} \subseteq {c.ruid, c.euid, c.suid}

\* the kernel's capability fix-up when the last root id is given up
setresuid_do(c, r, e, s) ==
    [c EXCEPT !.ruid = r, !.euid = e, !.suid = s,
              !.caps = IF /\ 0 \in {c.ruid, c.euid, c.suid}
                          /\ 0 \notin {r, e, s}
                          /\ ~c.nofixup
                       THEN {} ELSE c.caps]

\* The identities an invocation can start with.
StartCreds ==
    { \* started by root (from a root-owned transport agent)
      Cred(0, 0, 0, 0, 0, 0, {0}, AllCaps, FALSE, {}),
      \* setuid-root binary started by user u
      Cred(1000, 0, 0, 1000, 1000, 1000, {1000, 27}, AllCaps, FALSE, {}),
      \* plain user u, no capabilities
      Cred(1000, 1000, 1000, 1000, 1000, 1000, {1000, 27}, {}, FALSE, {}),
      \* user u, binary with file capabilities cap_setuid,cap_setgid
      Cred(1000, 1000, 1000, 1000, 1000, 1000, {1000, 27}, AllCaps, FALSE, {}),
      \* user u, binary with file capability cap_setgid only
      Cred(1000, 1000, 1000, 1000, 1000, 1000, {1000, 27}, {"CAP_SETGID"}, FALSE, {}),
      \* root with SECBIT_NO_SETUID_FIXUP
      Cred(0, 0, 0, 0, 0, 0, {0}, AllCaps, TRUE, {}),
      \* plain user bob, no capabilities
      Cred(1001, 1001, 1001, 1001, 1001, 1001, {1001}, {}, FALSE, {}),
      \* root under a policy that refuses one of the calls
      Cred(0, 0, 0, 0, 0, 0, {0}, AllCaps, FALSE, {"setgroups"}),
      Cred(0, 0, 0, 0, 0, 0, {0}, AllCaps, FALSE, {"setresgid"}),
      Cred(0, 0, 0, 0, 0, 0, {0}, AllCaps, FALSE, {"setresuid"}) }

(***************************************************************************)
(* is_plausible_string                                                     *)
(***************************************************************************)
\* char::is_ascii_graphic: U+0021 '!' ..= U+007E '~'
is_ascii_graphic(c) == c >= 33 /\ c <= 126

is_plausible_string_allows_empty(s) ==
    \A i \in 1..Len(s) : is_ascii_graphic(s[i])

is_plausible_string_any_ascii(s) ==
    /\ s # <<>>
    /\ \A i \in 1..Len(s) : s[i] >= 32 /\ s[i] <= 127

is_plausible_string(s) ==
    /\ s # <<>>
    /\ \A i \in 1..Len(s) : is_ascii_graphic(s[i])

(***************************************************************************)
(* std::path::Path on Unix                                                 *)
(***************************************************************************)
\* the pieces of p between separators, empty pieces included
RECURSIVE SplitAt(_, _, _)
SplitAt(p, i, cur) ==
    IF i > Len(p) THEN <<cur>>
    ELSE IF p[i] = 47 THEN <<cur>> \o SplitAt(p, i + 1, <<>>)
    ELSE SplitAt(p, i + 1, Append(cur, p[i]))

Pieces(p) == SplitAt(p, 1, <<>>)

\* Path::has_root / Path::is_absolute
is_absolute(p) == Len(p) >= 1 /\ p[1] = 47

\* is piece i of ps a component?  Empty pieces and "." are skipped, except
\* a leading "." of a relative path (Component::CurDir).
IsComponent(ps, i, rooted) ==
    /\ ps[i] # <<>>
    /\ (ps[i] = S_dot => (i = 1 /\ ~rooted))

ComponentOf(piece) ==
    IF piece = S_dot THEN [kind |-> "CurDir", os_str |-> piece]
    ELSE IF piece = S_dotdot THEN [kind |-> "ParentDir", os_str |-> piece]
    ELSE [kind |-> "Normal", os_str |-> piece]

RECURSIVE BodyComponents(_, _, _)
BodyComponents(ps, i, rooted) ==
    IF i > Len(ps) THEN <<>>
    ELSE IF IsComponent(ps, i, rooted)
         THEN <<ComponentOf(ps[i])>> \o BodyComponents(ps, i + 1, rooted)
         ELSE BodyComponents(ps, i + 1, rooted)

\* Path::components().collect()
components(p) ==
    (IF is_absolute(p) THEN <<[kind |-> "RootDir", os_str |-> S_slash]>> ELSE <<>>)
    \o BodyComponents(Pieces(p), 1, is_absolute(p))

RECURSIVE Join(_)
Join(ps) ==
    IF Len(ps) = 0 THEN <<>>
    ELSE IF Len(ps) = 1 THEN ps[1]
    ELSE ps[1] \o S_slash \o Join(Tail(ps))

\* Components::trim_right: drop trailing pieces that are no component
RECURSIVE TrimRight(_, _)
TrimRight(ps, rooted) ==
    IF Len(ps) > 1 /\ ~IsComponent(ps, Len(ps), rooted)
    THEN TrimRight(SubSeq(ps, 1, Len(ps) - 1), rooted)
    ELSE ps

\* Path::parent: the path without its final component, None for a root or
\* an empty path
parent(p) ==
    LET rooted == is_absolute(p)
        cs == components(p)
        ps == TrimRight(Pieces(p), rooted)
        rest == TrimRight(SubSeq(ps, 1, Len(ps) - 1), rooted)
    IN  IF cs = <<>> \/ cs[Len(cs)].kind = "RootDir" THEN None
        ELSE IF rooted /\ Len(rest) = 1 THEN Some(S_slash)
        ELSE Some(Join(rest))

Ok(v) == [ok |-> TRUE, val |-> v, err |-> "none"]
Err(e) == [ok |-> FALSE, val |-> <<>>, err |-> e]

parse_maildir_new_path_suffix_only(p) ==
    LET cs == components(p)
    IN  IF Len(cs) < 2 THEN Err("does not end in /Maildir/new")
        ELSE IF cs[Len(cs)].os_str # S_new THEN Err("does not end in 'new'")
        ELSE IF cs[Len(cs) - 1].os_str # S_Maildir
             THEN Err("does not have 'Maildir' as the second-to-last component")
        ELSE Ok(Get(parent(p)))

parse_maildir_new_path(p) ==
    LET cs == components(p)
    IN  IF ~is_absolute(p) THEN Err("is not an absolute path")
        ELSE IF Len(cs) < 2 THEN Err("does not end in /Maildir/new")
        ELSE IF cs[Len(cs)].os_str # S_new THEN Err("does not end in 'new'")
        ELSE IF cs[Len(cs) - 1].os_str # S_Maildir
             THEN Err("does not have 'Maildir' as the second-to-last component")
        ELSE IF parent(p) = None THEN Err("has no parent")
        ELSE Ok(Get(parent(p)))

(***************************************************************************)
(* The message transform.  An input stream is its bytes and fail_at: 0, or *)
(* the position of the byte whose read fails (Len(data) + 1: the read that *)
(* would report end-of-stream fails).                                      *)
(***************************************************************************)
Stream(d, f) == [data |-> d, fail_at |-> f]

\* position of the first newline at or after pos, Len(data) if there is none
RECURSIVE LineEnd(_, _)
LineEnd(data, pos) ==
    IF pos > Len(data) THEN Len(data)
    ELSE IF data[pos] = 10 THEN pos
    ELSE LineEnd(data, pos + 1)

\* BufRead::read_until(b'\n'): the bytes from pos up to and including the
\* next newline, or up to end-of-stream
read_until(inp, pos) ==
    LET e == LineEnd(inp.data, pos)
        last == IF e < pos THEN pos ELSE e
    IN  IF inp.fail_at # 0 /\ inp.fail_at >= pos /\ inp.fail_at <= last
        THEN [ok |-> FALSE, buffer |-> <<>>, next |-> pos]
        ELSE [ok |-> TRUE, buffer |-> SubSeq(inp.data, pos, e), next |-> e + 1]

\* chrono::DateTime::to_rfc2822 of the instant t seconds after the epoch
to_rfc2822(t) ==
    <<84,104,117,44,32,49,32,74,97,110,32,49,57,55,48,32,48,48,58,48,48,58,48>>
    \o <<48 + t>> \o <<32,43,48,48,48,48>>

\* the loop of process_existing_headers, from stream position pos
RECURSIVE process_existing_headers_loop(_, _, _, _, _)
process_existing_headers_loop(inp, pos, out, has_from, has_date) ==
    LET r == read_until(inp, pos)
        is_from == StartsWith(r.buffer, S_From)
        is_date == ~is_from /\ StartsWith(r.buffer, S_Date)
        is_end == ~is_from /\ ~is_date /\ (r.buffer = S_LF \/ r.buffer = S_CRLF)
        hf == has_from \/ is_from
        hd == has_date \/ is_date
    IN  IF ~r.ok
        THEN [ok |-> FALSE, out |-> out, pos |-> pos,
              has_from |-> has_from, has_date |-> has_date]
        ELSE IF is_end \/ Len(r.buffer) = 0
        THEN [ok |-> TRUE, out |-> out, pos |-> r.next,
              has_from |-> hf, has_date |-> hd]
        ELSE process_existing_headers_loop(inp, r.next, out \o r.buffer, hf, hd)

\* process_existing_headers writing the blank line out with the rest
process_existing_headers_keeps_blank(inp, pos) ==
    LET r == process_existing_headers_loop(inp, pos, <<>>, FALSE, FALSE)
    IN  IF r.ok THEN [r EXCEPT !.out = SubSeq(inp.data, pos, r.pos - 1)] ELSE r

process_existing_headers(inp, pos) ==
    process_existing_headers_loop(inp, pos, <<>>, FALSE, FALSE)

\* make_received_header with recipient and sender exchanged
make_received_header_swapped(to_addr, from_addr, time) ==
    Concat(<<S_Received_for, from_addr, S_with_local, to_addr, S_semi,
             to_rfc2822(time), S_LF>>)

make_received_header(to_addr, from_addr, time) ==
    Concat(<<S_Received_for, to_addr, S_with_local, from_addr, S_semi,
             to_rfc2822(time), S_LF>>)

\* write_headers adding its own From: line whatever the input holds
write_headers_always_from(inp, to_addr, from_addr, received_time) ==
    LET received == make_received_header(to_addr, from_addr, received_time)
        res == process_existing_headers(inp, 1)
        date == IF res.has_date THEN <<>>
                ELSE S_Date \o to_rfc2822(received_time) \o S_LF
        from == S_From \o from_addr \o S_LF
    IN  IF ~res.ok
        THEN [ok |-> FALSE, out |-> received \o res.out, pos |-> res.pos]
        ELSE [ok |-> TRUE, out |-> Concat(<<received, res.out, date, from, S_LF>>),
              pos |-> res.pos]

\* write_headers adding its own Date: line whatever the input holds
write_headers_always_date(inp, to_addr, from_addr, received_time) ==
    LET received == make_received_header(to_addr, from_addr, received_time)
        res == process_existing_headers(inp, 1)
        date == S_Date \o to_rfc2822(received_time) \o S_LF
        from == IF res.has_from THEN <<>> ELSE S_From \o from_addr \o S_LF
    IN  IF ~res.ok
        THEN [ok |-> FALSE, out |-> received \o res.out, pos |-> res.pos]
        ELSE [ok |-> TRUE, out |-> Concat(<<received, res.out, date, from, S_LF>>),
              pos |-> res.pos]

\* write_headers with its own From: line ahead of its own Date: line
write_headers_from_before_date(inp, to_addr, from_addr, received_time) ==
    LET received == make_received_header(to_addr, from_addr, received_time)
        res == process_existing_headers(inp, 1)
        date == IF res.has_date THEN <<>>
                ELSE S_Date \o to_rfc2822(received_time) \o S_LF
        from == IF res.has_from THEN <<>> ELSE S_From \o from_addr \o S_LF
    IN  IF ~res.ok
        THEN [ok |-> FALSE, out |-> received \o res.out, pos |-> res.pos]
        ELSE [ok |-> TRUE, out |-> Concat(<<received, res.out, from, date, S_LF>>),
              pos |-> res.pos]

\* write_headers without the trace header
write_headers_no_received(inp, to_addr, from_addr, received_time) ==
    LET res == process_existing_headers(inp, 1)
        date == IF res.has_date THEN <<>>
                ELSE S_Date \o to_rfc2822(received_time) \o S_LF
        from == IF res.has_from THEN <<>> ELSE S_From \o from_addr \o S_LF
    IN  IF ~res.ok
        THEN [ok |-> FALSE, out |-> res.out, pos |-> res.pos]
        ELSE [ok |-> TRUE, out |-> Concat(<<res.out, date, from, S_LF>>),
              pos |-> res.pos]

write_headers(inp, to_addr, from_addr, received_time) ==
    LET received == make_received_header(to_addr, from_addr, received_time)
        res == process_existing_headers(inp, 1)
        date == IF res.has_date THEN <<>>
                ELSE S_Date \o to_rfc2822(received_time) \o S_LF
        from == IF res.has_from THEN <<>>
                ELSE S_From \o from_addr \o S_LF
    IN  IF ~res.ok
        THEN [ok |-> FALSE, out |-> received \o res.out, pos |-> res.pos]
        ELSE [ok |-> TRUE, out |-> Concat(<<received, res.out, date, from, S_LF>>),
              pos |-> res.pos]

RECURSIVE write_body_loop(_, _, _)
write_body_loop(inp, pos, out) ==
    LET r == read_until(inp, pos)
    IN  IF ~r.ok THEN [ok |-> FALSE, out |-> out, pos |-> pos]
        ELSE IF Len(r.buffer) = 0 THEN [ok |-> TRUE, out |-> out, pos |-> r.next]
        ELSE write_body_loop(inp, r.next, out \o r.buffer)

\* write_body ending an unterminated last line with a line feed
write_body_terminated(inp, pos) ==
    LET b == write_body_loop(inp, pos, <<>>)
    IN  IF b.ok /\ b.out # <<>> /\ b.out[Len(b.out)] # 10
        THEN [b EXCEPT !.out = @ \o S_LF]
        ELSE b

write_body(inp, pos) == write_body_loop(inp, pos, <<>>)

\* write_message that reports Ok whatever happened while reading
write_message_always_ok(inp, to_addr, from_addr, received_time) ==
    LET h == write_headers(inp, to_addr, from_addr, received_time)
        b == write_body(inp, h.pos)
    IN  IF ~h.ok THEN [ok |-> TRUE, out |-> h.out]
        ELSE [ok |-> TRUE, out |-> h.out \o b.out]

\* everything write_message wrote to its output, and whether it returned Ok
write_message(inp, to_addr, from_addr, received_time) ==
    LET h == write_headers(inp, to_addr, from_addr, received_time)
        b == write_body(inp, h.pos)
    IN  IF ~h.ok THEN [ok |-> FALSE, out |-> h.out]
        ELSE [ok |-> b.ok, out |-> h.out \o b.out]

(***************************************************************************)
(* The state of one invocation.                                            *)
(***************************************************************************)
VARIABLES
    pc,            \* the stage main is about to execute, "returned" or "exit"
    ctx,           \* MainContext
    cred,          \* the process's credentials
    cli_b,         \* -b, as parsed
    sender_env,    \* -f, once main has read it
    to_arg,        \* the positional recipient, once main has read it
    config,        \* Option<Config>
    new_user,      \* Option<User>: the account of config.userName
    old,           \* drop_privileges' old_uid / old_gid
    from_address,  \* Option<String>
    to_address,    \* Option<String>
    maildir,       \* Option<PathBuf>: the mailbox root
    store,         \* the Maildir: directories created, messages in new/
    sink,          \* output_opt: None, or Some(bytes written to it so far)
    log,           \* what the invocation has done so far, in order
    call,          \* a function applied on its own: its argument and result
    peers,         \* invocations of deliver_to_maildir running side by side
    files          \* the files of the Maildir they share: tmp/ and new/

vars == <<pc, ctx, cred, cli_b, sender_env, to_arg, config, new_user, old,
          from_address, to_address, maildir, store, sink, log, call,
          peers, files>>

\* one invocation on its own: no other runs beside it
NoPeers == peers = <<>> /\ files = {}

NoCall == [fn |-> "none", arg |-> <<>>, ret |-> None]

Contexts ==
    [should_drop_privs : {"DropPrivileges", "NoDropPrivileges"},
     should_create_maildirs : {"CreateMaildirs", "NoCreateMaildirs"},
     message_destination : {"Maildir", "OutputStream"},
     received_time : {0, 1}]

\* what the command line, the configuration file and stdin can hold
CliB == {None, Some(S_m), Some(S_s)}
CliLogfile == {None, Some(S_dash), Some(S_dev_stderr), Some(S_tmp_log)}
CliSender == {None, Some(S_addr), Some(S_a_space_b)}
CliRecipient == {None, Some(S_bob), Some(S_empty)}

P_good == Concat(<<S_slash, S_u, S_slash, S_Maildir, S_slash, S_new>>)
P_relative == Concat(<<S_Maildir, S_slash, S_new>>)
P_no_marker == Concat(<<S_slash, S_u, S_slash, S_new>>)

ConfigUsers == {S_root, S_toor, S_bob, S_rob, S_amy, S_jose, S_ghost}
ConfigPaths == {P_good, P_relative, P_no_marker}
Configs == [mailDir : ConfigPaths, userName : ConfigUsers]

M_from_hello == Concat(<<S_From, S_addr, S_LF, S_LF, <<104,101,108,108,111,10>> >>)
M_body_only == S_LF \o <<66,111,100,121>>
M_empty == <<>>
M_subject_eof == <<83,58,32,120>>

Inputs ==
    { Stream(M_from_hello, 0), Stream(M_body_only, 0), Stream(M_empty, 0),
      Stream(M_subject_eof, 0),
      Stream(M_from_hello, 1), Stream(M_from_hello, Len(M_from_hello)) }

Init ==
    /\ pc = "prog_name"
    /\ ctx \in Contexts
    /\ cred \in StartCreds
    /\ cli_b = None
    /\ sender_env = None
    /\ to_arg = None
    /\ config = None
    /\ new_user = None
    /\ old = None
    /\ from_address = None
    /\ to_address = None
    /\ maildir = None
    /\ store = [created |-> FALSE, new |-> <<>>]
    /\ sink \in {None, Some(<<>>)}
    /\ log = <<>>
    /\ call = NoCall
    /\ NoPeers

Go(next, event) == pc' = next /\ log' = Append(log, event)
\* std::process::exit(1)
Die(event) == pc' = "exit" /\ log' = Append(log, event)

(***************************************************************************)
(* main, lines 648-713: program name, command line, logging,               *)
(* configuration, target user.                                             *)
(***************************************************************************)
CheckProgName ==
    /\ pc = "prog_name"
    /\ \E name \in {"none", "valid", "invalid"} :
         IF name = "valid" THEN Go("parse_cli", "prog_name:ok")
         ELSE IF name = "none" THEN Die("prog_name:none")
         ELSE Die("prog_name:invalid")
    /\ UNCHANGED <<peers, files, ctx, cred, cli_b, sender_env, to_arg, config, new_user, old,
                   from_address, to_address, maildir, store, sink, call>>

\* get_matches_from: clap exits on a command line it cannot parse; the
\* value of -b is accepted whatever it is, and main never reads it
ParseCli ==
    /\ pc = "parse_cli"
    /\ \/ /\ Die("cli:usage")
          /\ UNCHANGED cli_b
       \/ \E b \in CliB :
            /\ cli_b' = b
            /\ Go("init_log", "cli:ok")
    /\ UNCHANGED <<peers, files, ctx, cred, sender_env, to_arg, config, new_user, old,
                   from_address, to_address, maildir, store, sink, call>>

valid_logfiles == {S_dash, S_dev_stderr}

InitLogging ==
    /\ pc = "init_log"
    /\ \E opt_logfile \in CliLogfile, created \in BOOLEAN :
         IF opt_logfile = None THEN Go("read_config", "log:ready")
         ELSE IF Get(opt_logfile) \notin valid_logfiles THEN Die("log:invalid_path")
         ELSE IF ~created THEN Die("log:create_failed")
         ELSE Go("read_config", "log:ready")
    /\ UNCHANGED <<peers, files, ctx, cred, cli_b, sender_env, to_arg, config, new_user, old,
                   from_address, to_address, maildir, store, sink, call>>

\* what Ini::load_from_file makes of the configuration file: an error, or
\* the keys of the general (unnamed) section, if there is one
ConfigKeys == {"mailDir", "userName", "other"}
ConfigValues(k) ==
    IF k = "mailDir" THEN ConfigPaths
    ELSE IF k = "userName" THEN ConfigUsers
    ELSE {S_x}

Sections ==
    UNION { {sec \in [K -> ConfigPaths \cup ConfigUsers \cup {S_x}] :
                \A k \in K : sec[k] \in ConfigValues(k)} :
            K \in SUBSET ConfigKeys }

ConfigFiles ==
    {[loaded |-> FALSE, general |-> None], [loaded |-> TRUE, general |-> None]}
    \cup {[loaded |-> TRUE, general |-> Some(sec)] : sec \in Sections}

\* read_config_ini with userName falling back to the recipient's usual name
read_config_ini_default_user(file) ==
    IF ~file.loaded THEN Err("Error reading config file")
    ELSE IF file.general = None THEN Err("sections seem malformed")
    ELSE LET section == Get(file.general)
         IN  IF "mailDir" \notin DOMAIN section
             THEN Err("variable mailDir not found")
             ELSE Ok([mailDir |-> section["mailDir"],
                      userName |-> IF "userName" \in DOMAIN section
                                   THEN section["userName"] ELSE S_bob])

read_config_ini(file) ==
    IF ~file.loaded THEN Err("Error reading config file")
    ELSE IF file.general = None THEN Err("sections seem malformed")
    ELSE LET section == Get(file.general)
         IN  IF "mailDir" \notin DOMAIN section
             THEN Err("variable mailDir not found")
             ELSE IF "userName" \notin DOMAIN section
             THEN Err("variable userName not found")
             ELSE Ok([mailDir |-> section["mailDir"],
                      userName |-> section["userName"]])

\* read_config_ini(&ctx.config_path), exit(1) on its error; `call` holds the
\* file it read until main moves on
ReadConfig ==
    /\ pc = "read_config"
    /\ \E file \in ConfigFiles :
         LET r == read_config_ini(file)
         IN  /\ call' = [fn |-> "read_config_ini", arg |-> file, ret |-> Some(r)]
             /\ IF r.ok
                THEN config' = Some(r.val) /\ Go("check_root_name", "config:ok")
                ELSE UNCHANGED config /\ Die("config:error")
    /\ UNCHANGED <<peers, files, ctx, cred, cli_b, sender_env, to_arg, new_user, old,
                   from_address, to_address, maildir, store, sink>>

CheckRootName ==
    /\ pc = "check_root_name"
    /\ IF Get(config).userName = S_root THEN Die("config:user_is_root")
       ELSE Go("from_name", "config:user_not_named_root")
    /\ call' = NoCall
    /\ UNCHANGED <<peers, files, ctx, cred, cli_b, sender_env, to_arg, config, new_user, old,
                   from_address, to_address, maildir, store, sink>>

drop_dispatch_never(should_drop_privs) == "from_address"

\* the match on ctx.should_drop_privs
drop_dispatch(should_drop_privs) ==
    IF should_drop_privs = "DropPrivileges" THEN "drop_capture" ELSE "from_address"

ResolveUser ==
    /\ pc = "from_name"
    /\ LET u == User_from_name(Get(config).userName)
       IN  IF u = None
           THEN Die("from_name:no_such_user") /\ UNCHANGED new_user
           ELSE /\ new_user' = u
                /\ Go(drop_dispatch(ctx.should_drop_privs), "from_name:ok")
    /\ UNCHANGED <<peers, files, ctx, cred, cli_b, sender_env, to_arg, config, old,
                   from_address, to_address, maildir, store, sink, call>>

(***************************************************************************)
(* drop_privileges, one action per statement.                              *)
(***************************************************************************)
DropOrder_no_probes ==
    << "drop_capture", "drop_root_check", "drop_setgroups", "drop_setresgid",
       "drop_setresuid" >>

DropOrder_uid_first ==
    << "drop_capture", "drop_root_check", "drop_setgroups", "drop_setresuid",
       "drop_setresgid", "drop_probe_gid", "drop_probe_uid" >>

\* the statements of drop_privileges, in program order
DropOrder ==
    << "drop_capture", "drop_root_check", "drop_setgroups", "drop_setresgid",
       "drop_setresuid", "drop_probe_gid", "drop_probe_uid" >>

\* the statement after `step`; after the last one drop_privileges returns
\* to main, which resolves the sender next
drop_next(step) ==
    LET i == CHOOSE k \in 1..Len(DropOrder) : DropOrder[k] = step
    IN  IF i = Len(DropOrder) THEN "from_address" ELSE DropOrder[i + 1]

DropCapture ==
    /\ pc = "drop_capture"
    /\ old' = Some([uid |-> cred.euid, gid |-> cred.egid])
    /\ Go(drop_next("drop_capture"), "drop:capture")
    /\ UNCHANGED <<peers, files, ctx, cred, cli_b, sender_env, to_arg, config, new_user,
                   from_address, to_address, maildir, store, sink, call>>

root_check_by_name(user) == user.name = S_root

\* new_uid.is_root()
root_check(user) == is_root(user.uid)

DropRootCheck ==
    /\ pc = "drop_root_check"
    /\ IF root_check(Get(new_user)) THEN Die("drop:target_is_root")
       ELSE Go(drop_next("drop_root_check"), "drop:target_not_root")
    /\ UNCHANGED <<peers, files, ctx, cred, cli_b, sender_env, to_arg, config, new_user, old,
                   from_address, to_address, maildir, store, sink, call>>

\* unwrap_or_else(|e| { eprintln!(..); exit(1) }) on each id-setting call
on_drop_result(ok, step) == IF ok THEN drop_next(step) ELSE "exit"

DropSetgroups ==
    /\ pc = "drop_setgroups"
    /\ LET ok == setgroups_ok(cred)
       IN  /\ cred' = IF ok THEN setgroups_do(cred, {Get(new_user).gid}) ELSE cred
           /\ Go(on_drop_result(ok, "drop_setgroups"),
                 IF ok THEN "drop:setgroups" ELSE "drop:setgroups_failed")
    /\ UNCHANGED <<peers, files, ctx, cli_b, sender_env, to_arg, config, new_user, old,
                   from_address, to_address, maildir, store, sink, call>>

DropSetresgid ==
    /\ pc = "drop_setresgid"
    /\ LET g == Get(new_user).gid
           ok == setresgid_ok(cred, g, g, g)
       IN  /\ cred' = IF ok THEN setresgid_do(cred, g, g, g) ELSE cred
           /\ Go(on_drop_result(ok, "drop_setresgid"),
                 IF ok THEN "drop:setresgid" ELSE "drop:setresgid_failed")
    /\ UNCHANGED <<peers, files, ctx, cli_b, sender_env, to_arg, config, new_user, old,
                   from_address, to_address, maildir, store, sink, call>>

DropSetresuid ==
    /\ pc = "drop_setresuid"
    /\ LET u == Get(new_user).uid
           ok == setresuid_ok(cred, u, u, u)
       IN  /\ cred' = IF ok THEN setresuid_do(cred, u, u, u) ELSE cred
           /\ Go(on_drop_result(ok, "drop_setresuid"),
                 IF ok THEN "drop:setresuid" ELSE "drop:setresuid_failed")
    /\ UNCHANGED <<peers, files, ctx, cli_b, sender_env, to_arg, config, new_user, old,
                   from_address, to_address, maildir, store, sink, call>>

on_probe_result_ignore(reacquired, step) == drop_next(step)

\* match res { Ok(_) => { eprintln!(..); exit(1) }, Err(_e) => {} }
on_probe_result(reacquired, step) == IF reacquired THEN "exit" ELSE drop_next(step)

\* if new_gid != old_gid { setresgid(old_gid, old_gid, old_gid) .. }
DropProbeGid ==
    /\ pc = "drop_probe_gid"
    /\ LET g == Get(old).gid
           tried == Get(new_user).gid # g
           ok == tried /\ setresgid_ok(cred, g, g, g)
       IN  /\ cred' = IF ok THEN setresgid_do(cred, g, g, g) ELSE cred
           /\ Go(on_probe_result(ok, "drop_probe_gid"),
                 IF ok THEN "drop:gid_reacquired"
                 ELSE IF tried THEN "drop:gid_probe_refused"
                 ELSE "drop:gid_probe_skipped")
    /\ UNCHANGED <<peers, files, ctx, cli_b, sender_env, to_arg, config, new_user, old,
                   from_address, to_address, maildir, store, sink, call>>

\* if new_uid != old_uid { setresuid(old_uid, old_uid, old_uid) .. }
DropProbeUid ==
    /\ pc = "drop_probe_uid"
    /\ LET u == Get(old).uid
           tried == Get(new_user).uid # u
           ok == tried /\ setresuid_ok(cred, u, u, u)
       IN  /\ cred' = IF ok THEN setresuid_do(cred, u, u, u) ELSE cred
           /\ Go(on_probe_result(ok, "drop_probe_uid"),
                 IF ok THEN "drop:uid_reacquired"
                 ELSE IF tried THEN "drop:uid_probe_refused"
                 ELSE "drop:uid_probe_skipped")
    /\ UNCHANGED <<peers, files, ctx, cli_b, sender_env, to_arg, config, new_user, old,
                   from_address, to_address, maildir, store, sink, call>>

(***************************************************************************)
(* main, lines 722-806: sender, recipient, mailbox path, directories,      *)
(* delivery.                                                               *)
(***************************************************************************)
MainOrder_dirs_first ==
    << "from_address", "to_address", "create_dirs", "parse_path", "deliver" >>

\* the stages of main after the privilege drop, in program order
MainOrder ==
    << "from_address", "to_address", "parse_path", "create_dirs", "deliver" >>

\* main going back to the delivery once it is done
main_next_redeliver(stage) ==
    LET i == CHOOSE k \in 1..Len(MainOrder) : MainOrder[k] = stage
    IN  IF i = Len(MainOrder) THEN MainOrder[i] ELSE MainOrder[i + 1]

main_next(stage) ==
    LET i == CHOOSE k \in 1..Len(MainOrder) : MainOrder[k] = stage
    IN  IF i = Len(MainOrder) THEN "returned" ELSE MainOrder[i + 1]

\* get_current_user asking for the uid the invocation started with
get_current_user_of_invoker(c) ==
    LET u == User_from_uid(IF old # None THEN Get(old).uid ELSE c.ruid)
    IN  IF u = None THEN None ELSE Some(Get(u).name)

\* get_current_user: the account name of the real uid, None where it exits
get_current_user(c) ==
    LET u == User_from_uid(c.ruid)
    IN  IF u = None THEN None ELSE Some(Get(u).name)

\* ResolveSender checking only an address given with -f
ResolveSender_default_unchecked ==
    /\ pc = "from_address"
    /\ \E f \in CliSender :
         LET a == IF IsSome(f) THEN f ELSE get_current_user(cred)
         IN  /\ sender_env' = f
             /\ IF a = None
                THEN Die("from_address:no_current_user") /\ UNCHANGED from_address
                ELSE IF IsSome(f) /\ ~is_plausible_string(Get(a))
                THEN Die("from_address:implausible") /\ UNCHANGED from_address
                ELSE /\ from_address' = a
                     /\ Go(main_next("from_address"), "from_address:ok")
    /\ UNCHANGED <<peers, files, ctx, cred, cli_b, to_arg, config, new_user, old,
                   to_address, maildir, store, sink, call>>

\* -f if given, else the current user; rejected unless plausible
ResolveSender ==
    /\ pc = "from_address"
    /\ \E f \in CliSender :
         LET a == IF IsSome(f) THEN f ELSE get_current_user(cred)
         IN  /\ sender_env' = f
             /\ IF a = None
                THEN Die("from_address:no_current_user") /\ UNCHANGED from_address
                ELSE IF ~is_plausible_string(Get(a))
                THEN Die("from_address:implausible") /\ UNCHANGED from_address
                ELSE /\ from_address' = a
                     /\ Go(main_next("from_address"), "from_address:ok")
    /\ UNCHANGED <<peers, files, ctx, cred, cli_b, to_arg, config, new_user, old,
                   to_address, maildir, store, sink, call>>

\* the positional argument if given, else config.userName
ResolveRecipient ==
    /\ pc = "to_address"
    /\ \E r \in CliRecipient :
         LET a == IF IsSome(r) THEN Get(r) ELSE Get(config).userName
         IN  /\ to_arg' = r
             /\ IF ~is_plausible_string(a)
                THEN Die("to_address:implausible") /\ UNCHANGED to_address
                ELSE /\ to_address' = Some(a)
                     /\ Go(main_next("to_address"), "to_address:ok")
    /\ UNCHANGED <<peers, files, ctx, cred, cli_b, sender_env, config, new_user, old,
                   from_address, maildir, store, sink, call>>

ValidatePath ==
    /\ pc = "parse_path"
    /\ LET r == parse_maildir_new_path(Get(config).mailDir)
       IN  IF r.ok
           THEN maildir' = Some(r.val) /\ Go(main_next("parse_path"), "parse_path:ok")
           ELSE UNCHANGED maildir /\ Die("parse_path:error")
    /\ UNCHANGED <<peers, files, ctx, cred, cli_b, sender_env, to_arg, config, new_user, old,
                   from_address, to_address, store, sink, call>>

\* Maildir::create_dirs, if asked for; the file system may refuse
CreateDirs ==
    /\ pc = "create_dirs"
    /\ IF ctx.should_create_maildirs = "CreateMaildirs"
       THEN \E ok \in BOOLEAN :
              IF ok THEN /\ store' = [store EXCEPT !.created = TRUE]
                         /\ Go(main_next("create_dirs"), "create_dirs:ok")
              ELSE UNCHANGED store /\ Die("create_dirs:error")
       ELSE UNCHANGED store /\ Go(main_next("create_dirs"), "create_dirs:skipped")
    /\ UNCHANGED <<peers, files, ctx, cred, cli_b, sender_env, to_arg, config, new_user, old,
                   from_address, to_address, maildir, sink, call>>

\* deliver_to_maildir: build the message in memory, then store_new
DeliverMaildir(inp) ==
    LET m == write_message(inp, Get(to_address), Get(from_address), ctx.received_time)
    IN  IF ~m.ok
        THEN UNCHANGED store /\ Die("deliver:construct_failed")
        ELSE \E stored \in BOOLEAN :
               IF stored
               THEN /\ store' = [store EXCEPT !.new = Append(@, m.out)]
                    /\ Go(main_next("deliver"), "deliver:store_new")
               ELSE UNCHANGED store /\ Die("deliver:store_new_failed")

\* write_message straight into the output stream
DeliverStream(inp) ==
    LET m == write_message(inp, Get(to_address), Get(from_address), ctx.received_time)
    IN  /\ sink' = Some(Get(sink) \o m.out)
        /\ IF m.ok THEN Go(main_next("deliver"), "deliver:written")
           ELSE Die("deliver:write_failed")

\* the output stream wins whenever one is supplied
delivery_arm_sink_first(destination, output_opt) ==
    IF output_opt # None THEN "OutputStream"
    ELSE IF destination = "Maildir" THEN "Maildir"
    ELSE "invalid"

\* match (ctx.message_destination, output_opt): the arm taken
delivery_arm(destination, output_opt) ==
    IF destination = "Maildir" /\ output_opt = None THEN "Maildir"
    ELSE IF destination = "OutputStream" /\ output_opt # None THEN "OutputStream"
    ELSE "invalid"

Deliver ==
    /\ pc = "deliver"
    /\ LET arm == delivery_arm(ctx.message_destination, sink)
       IN  IF arm = "Maildir"
           THEN (\E inp \in Inputs : DeliverMaildir(inp)) /\ UNCHANGED sink
           ELSE IF arm = "OutputStream"
           THEN (\E inp \in Inputs : DeliverStream(inp)) /\ UNCHANGED store
           ELSE Die("deliver:invalid_combination") /\ UNCHANGED <<store, sink>>
    /\ UNCHANGED <<peers, files, ctx, cred, cli_b, sender_env, to_arg, config, new_user, old,
                   from_address, to_address, maildir, call>>

Next ==
    \/ CheckProgName
    \/ ParseCli
    \/ InitLogging
    \/ ReadConfig
    \/ CheckRootName
    \/ ResolveUser
    \/ DropCapture
    \/ DropRootCheck
    \/ DropSetgroups
    \/ DropSetresgid
    \/ DropSetresuid
    \/ DropProbeGid
    \/ DropProbeUid
    \/ ResolveSender
    \/ ResolveRecipient
    \/ ValidatePath
    \/ CreateDirs
    \/ Deliver

Spec == Init /\ [][Next]_vars

\* main is straight-line code in one thread: while a stage remains to be
\* executed, the process executes it.  The invocations are those of the two
\* binaries of the crate.
LiveCreds ==
    { \* started by root
      Cred(0, 0, 0, 0, 0, 0, {0}, AllCaps, FALSE, {}),
      \* user u, binary with file capabilities cap_setuid,cap_setgid
      Cred(1000, 1000, 1000, 1000, 1000, 1000, {1000, 27}, AllCaps, FALSE, {}) }

\* src/main.rs: the real agent, no output stream
MainInvocation ==
    /\ ctx = [should_drop_privs |-> "DropPrivileges",
              should_create_maildirs |-> "CreateMaildirs",
              message_destination |-> "Maildir",
              received_time |-> 0]
    /\ sink = None

\* src/bogus_main.rs: the test double writing to stdout
BogusInvocation ==
    /\ ctx = [should_drop_privs |-> "NoDropPrivileges",
              should_create_maildirs |-> "NoCreateMaildirs",
              message_destination |-> "OutputStream",
              received_time |-> 0]
    /\ sink = Some(<<>>)

Init_Live ==
    /\ Init
    /\ cred \in LiveCreds
    /\ MainInvocation \/ BogusInvocation

SpecLive == Init_Live /\ [][Next]_vars /\ WF_vars(Next)

(***************************************************************************)
(* The pure functions applied on their own, to every input of a bounded    *)
(* set.  The invocation itself stays where Init_Idle puts it.              *)
(***************************************************************************)
RECURSIVE SeqsOfLen(_, _)
SeqsOfLen(S, n) ==
    IF n = 0 THEN {<<>>}
    ELSE {Append(s, x) : s \in SeqsOfLen(S, n - 1), x \in S}

SeqsUpTo(S, n) == UNION {SeqsOfLen(S, k) : k \in 0..n}

Init_Idle ==
    /\ pc = "prog_name"
    /\ ctx = [should_drop_privs |-> "DropPrivileges",
              should_create_maildirs |-> "CreateMaildirs",
              message_destination |-> "Maildir",
              received_time |-> 0]
    /\ cred = Cred(0, 0, 0, 0, 0, 0, {0}, AllCaps, FALSE, {})
    /\ cli_b = None
    /\ sender_env = None
    /\ to_arg = None
    /\ config = None
    /\ new_user = None
    /\ old = None
    /\ from_address = None
    /\ to_address = None
    /\ maildir = None
    /\ store = [created |-> FALSE, new |-> <<>>]
    /\ sink = None
    /\ log = <<>>

main_vars == <<pc, ctx, cred, cli_b, sender_env, to_arg, config, new_user, old,
               from_address, to_address, maildir, store, sink, log>>

\* paths: what PathChunks spell, and the paths the specification names
PathChunks == {S_slash, S_new, S_Maildir, S_u, S_dot}

P_home_good == Concat(<<S_slash, S_home, S_slash, S_u, S_slash, S_Maildir, S_slash, S_new>>)
P_home_old == Concat(<<S_slash, S_home, S_slash, S_u, S_slash, S_Maildir, S_slash, S_old>>)
P_rel_good == Concat(<<S_relative, S_slash, S_Maildir, S_slash, S_new>>)
P_a_new == Concat(<<S_slash, S_a, S_slash, S_new>>)

PathInputs ==
    {Concat(cs) : cs \in SeqsUpTo(PathChunks, MaxPathChunks)}
    \cup {P_home_good, P_home_old, P_rel_good, P_a_new}

Init_Path ==
    /\ Init_Idle
    /\ NoPeers
    /\ call \in {[fn |-> "parse_maildir_new_path", arg |-> p, ret |-> None] :
                    p \in PathInputs}

CallParsePath ==
    /\ call.fn = "parse_maildir_new_path"
    /\ call.ret = None
    /\ call' = [call EXCEPT !.ret = Some(parse_maildir_new_path(call.arg))]
    /\ UNCHANGED <<main_vars, peers, files>>

Next_Path == CallParsePath

SpecPath == Init_Path /\ [][Next_Path]_vars

\* strings: tab, line feed, space, '!', '@', '~', DEL, e-acute
SampleChars == {9, 10, 32, 33, 64, 126, 127, 233}

StringInputs == SeqsUpTo(SampleChars, MaxStrLen)

Init_Plausible ==
    /\ Init_Idle
    /\ NoPeers
    /\ call \in {[fn |-> "is_plausible_string", arg |-> s, ret |-> None] :
                    s \in StringInputs}

CallIsPlausible ==
    /\ call.fn = "is_plausible_string"
    /\ call.ret = None
    /\ call' = [call EXCEPT !.ret = Some(is_plausible_string(call.arg))]
    /\ UNCHANGED <<main_vars, peers, files>>

Next_Plausible == CallIsPlausible

SpecPlausible == Init_Plausible /\ [][Next_Plausible]_vars

\* messages: what MsgChunks spell ("From: ", "Date: ", "Received: ", "x",
\* line feed, carriage return), and the messages the specification names
MsgChunks == {S_From, S_Date, S_Received, S_x, S_LF, S_CR}

MessageInputs ==
    {Concat(cs) : cs \in SeqsUpTo(MsgChunks, MaxMsgChunks)}
    \cup {M_from_hello, M_body_only, M_empty}

\* the clock readings of MainContext.received_time
Times == {0, 1}

Init_Message ==
    /\ Init_Idle
    /\ NoPeers
    /\ call \in {[fn |-> "write_message", arg |-> [data |-> d, time |-> t],
                  ret |-> None] : d \in MessageInputs, t \in Times}

\* write_message on an input that reads without error, from u to bob
CallWriteMessage ==
    /\ call.fn = "write_message"
    /\ call.ret = None
    /\ call' = [call EXCEPT !.ret =
                   Some(write_message(Stream(call.arg.data, 0), S_bob, S_u,
                                      call.arg.time))]
    /\ UNCHANGED <<main_vars, peers, files>>

Next_Message == CallWriteMessage

SpecMessage == Init_Message /\ [][Next_Message]_vars

\* header blocks: what HeaderChunks spell ("From: ", "Date: ", "from: ",
\* "From:", space, line feed, carriage return), and the inputs of the tests
HeaderChunks == {S_From, S_Date, S_from_lower, S_From_colon, S_space, S_LF, S_CR}

HeaderInputs ==
    {Concat(cs) : cs \in SeqsUpTo(HeaderChunks, MaxHeaderChunks)}
    \cup {M_from_hello, M_body_only, M_empty, M_subject_eof}

Init_Headers ==
    /\ Init_Idle
    /\ NoPeers
    /\ call \in {[fn |-> "process_existing_headers", arg |-> d, ret |-> None] :
                    d \in HeaderInputs}

\* process_existing_headers on an input that reads without error, from its
\* first byte
CallProcessHeaders ==
    /\ call.fn = "process_existing_headers"
    /\ call.ret = None
    /\ call' = [call EXCEPT !.ret =
                   Some(process_existing_headers(Stream(call.arg, 0), 1))]
    /\ UNCHANGED <<main_vars, peers, files>>

Next_Headers == CallProcessHeaders

SpecHeaders == Init_Headers /\ [][Next_Headers]_vars

(***************************************************************************)
(* Two invocations delivering to the same Maildir at the same time, each   *)
(* at deliver_to_maildir.  The store is the one the invocations are given: *)
(* store_new creates a file of a name not yet in use under tmp/, writes    *)
(* the message into it, and renames it into new/ in one step.              *)
(***************************************************************************)
Peers == {1, 2}
FileNames == {"f1", "f2", "f3"}

\* the inputs of the two: a message with a body, one without a header, and
\* one whose read fails
PeerInputs ==
    {Stream(M_from_hello, 0), Stream(M_body_only, 0),
     Stream(M_from_hello, Len(M_from_hello))}

\* both invocations use one buffer
message_buffer_shared(p) == 1

\* mail_mesg_bytes, the Vec deliver_to_maildir builds the message in: a
\* local of the invocation
message_buffer(p) == p

\* the clock reading of invocation p
PeerTime(p) == p - 1

Init_Deliveries ==
    /\ Init_Idle
    /\ call = NoCall
    /\ files = {}
    /\ peers \in [Peers -> {[pc |-> "write_message", input |-> i,
                             buf |-> <<>>, name |-> None] : i \in PeerInputs}]

\* write_message(input, &mut mail_mesg_bytes, ..)?
PeerAssemble(p) ==
    /\ peers[p].pc = "write_message"
    /\ LET m == write_message(peers[p].input, S_bob, S_u, PeerTime(p))
           b == message_buffer(p)
       IN  IF m.ok
           THEN peers' = [q \in Peers |->
                            [peers[q] EXCEPT
                               !.buf = IF q = b THEN m.out ELSE @,
                               !.pc = IF q = p THEN "store_new" ELSE @]]
           ELSE peers' = [q \in Peers |->
                            [peers[q] EXCEPT
                               !.buf = IF q = b THEN m.out ELSE @,
                               !.pc = IF q = p THEN "failed" ELSE @]]
    /\ UNCHANGED <<main_vars, call, files>>

\* maildir.store_new(&mail_mesg_bytes): a new file under tmp/
PeerStoreCreate(p) ==
    /\ peers[p].pc = "store_new"
    /\ \/ \E n \in FileNames \ {f.name : f \in files} :
            /\ files' = files \cup {[dir |-> "tmp", name |-> n, bytes |-> <<>>]}
            /\ peers' = [peers EXCEPT ![p].name = Some(n), ![p].pc = "store_write"]
       \/ /\ peers' = [peers EXCEPT ![p].pc = "failed"]
          /\ UNCHANGED files
    /\ UNCHANGED <<main_vars, call>>

\* store_new writes the buffer into its file, in two writes
PeerStoreWrite(p) ==
    /\ peers[p].pc = "store_write"
    /\ LET msg == peers[message_buffer(p)].buf
           f == CHOOSE g \in files : g.name = Get(peers[p].name)
           upto == IF f.bytes = <<>> THEN Len(msg) \div 2 ELSE Len(msg)
       IN  /\ files' = (files \ {f}) \cup {[f EXCEPT !.bytes = SubSeq(msg, 1, upto)]}
           /\ peers' = [peers EXCEPT ![p].pc =
                           IF upto = Len(msg) THEN "store_rename" ELSE "store_write"]
    /\ UNCHANGED <<main_vars, call>>

\* store_new renames tmp/name to new/name, and deliver_to_maildir returns
PeerStoreRename(p) ==
    /\ peers[p].pc = "store_rename"
    /\ LET f == CHOOSE g \in files : g.name = Get(peers[p].name)
       IN  files' = (files \ {f}) \cup {[f EXCEPT !.dir = "new"]}
    /\ peers' = [peers EXCEPT ![p].pc = "done"]
    /\ UNCHANGED <<main_vars, call>>

Next_Deliveries ==
    \E p \in Peers :
        \/ PeerAssemble(p)
        \/ PeerStoreCreate(p)
        \/ PeerStoreWrite(p)
        \/ PeerStoreRename(p)

SpecDeliveries == Init_Deliveries /\ [][Next_Deliveries]_vars

(***************************************************************************)
(* Reading the log.                                                        *)
(***************************************************************************)
Last(s) == s[Len(s)]
Logged(e) == \E i \in 1..Len(log) : log[i] = e
LoggedAny(es) == \E i \in 1..Len(log) : log[i] \in es

\* operations on the recipient's mailbox store
StoreOps ==
    {"create_dirs:ok", "create_dirs:error",
     "deliver:store_new", "deliver:store_new_failed"}

\* calls that change, or try to change, the process's ids
PrivCalls ==
    {"drop:setgroups", "drop:setgroups_failed",
     "drop:setresgid", "drop:setresgid_failed",
     "drop:setresuid", "drop:setresuid_failed",
     "drop:gid_reacquired", "drop:gid_probe_refused",
     "drop:uid_reacquired", "drop:uid_probe_refused"}

GidProbeEvents ==
    {"drop:gid_reacquired", "drop:gid_probe_refused", "drop:gid_probe_skipped"}
UidProbeEvents ==
    {"drop:uid_reacquired", "drop:uid_probe_refused", "drop:uid_probe_skipped"}
Reacquired == {"drop:gid_reacquired", "drop:uid_reacquired"}
DropFailures ==
    {"drop:setgroups_failed", "drop:setresgid_failed", "drop:setresuid_failed"}

\* the place of a drop_privileges event in the protocol, 0 for other events
DropRank(e) ==
    IF e = "drop:capture" THEN 1
    ELSE IF e \in {"drop:target_not_root", "drop:target_is_root"} THEN 2
    ELSE IF e \in {"drop:setgroups", "drop:setgroups_failed"} THEN 3
    ELSE IF e \in {"drop:setresgid", "drop:setresgid_failed"} THEN 4
    ELSE IF e \in {"drop:setresuid", "drop:setresuid_failed"} THEN 5
    ELSE IF e \in GidProbeEvents THEN 6
    ELSE IF e \in UidProbeEvents THEN 7
    ELSE 0

IsDropEvent(e) == DropRank(e) > 0
DropEvents(l) == SelectSeq(l, IsDropEvent)

\* every step of drop_privileges has been taken, in order, and none failed
\* or found the old id reacquired
DropCompleteIn(l) ==
    LET d == DropEvents(l)
    IN  /\ Len(d) = 7
        /\ \A k \in 1..7 : DropRank(d[k]) = k
        /\ \A k \in 1..7 : d[k] \notin DropFailures \cup Reacquired
        /\ d[2] = "drop:target_not_root"

\* drop_privileges has returned to main
DropReturned ==
    /\ ctx.should_drop_privs = "DropPrivileges"
    /\ \/ pc \in {"from_address", "to_address", "parse_path", "create_dirs",
                   "deliver", "returned"}
       \/ LoggedAny({"from_address:ok", "from_address:implausible",
                     "from_address:no_current_user"})

NothingWritten ==
    /\ store = [created |-> FALSE, new |-> <<>>]
    /\ sink \in {None, Some(<<>>)}

Ids == {0, 27, 1000, 1001, 1002, 1003}

(***************************************************************************)
(* C1: with should_drop_privs = DropPrivileges, every operation on the     *)
(* mailbox store (create_dirs, store_new) comes after drop_privileges has  *)
(* completed all of its steps, the reacquisition probes included.          *)
(***************************************************************************)
C1_StoreOnlyAfterDrop ==
    ctx.should_drop_privs = "DropPrivileges" =>
        \A i \in 1..Len(log) :
            log[i] \in StoreOps => DropCompleteIn(SubSeq(log, 1, i - 1))

C1_Witness ==
    /\ ctx.should_drop_privs = "DropPrivileges"
    /\ Logged("create_dirs:ok")
    /\ Logged("deliver:store_new")
    /\ Len(store.new) = 1

(***************************************************************************)
(* C2: once drop_privileges has returned for a target whose uid and gid    *)
(* both differ from the original effective uid and gid, the real,          *)
(* effective and saved uids are the target uid, the three gids are the     *)
(* target gid, the supplementary groups are exactly the target gid, and    *)
(* no setresuid / setresgid call naming the original uid / gid is          *)
(* permitted any more.                                                     *)
(***************************************************************************)
C2_DroppedForGood ==
    (/\ DropReturned
     /\ Get(new_user).uid # Get(old).uid
     /\ Get(new_user).gid # Get(old).gid)
    =>
    LET u == Get(new_user).uid
        g == Get(new_user).gid
    IN  /\ cred.ruid = u /\ cred.euid = u /\ cred.suid = u
        /\ cred.rgid = g /\ cred.egid = g /\ cred.sgid = g
        /\ cred.groups = {g}
        /\ \A r \in Ids, e \in Ids, s \in Ids :
             /\ Get(old).uid \in {r, e, s} => ~setresuid_ok(cred, r, e, s)
             /\ Get(old).gid \in {r, e, s} => ~setresgid_ok(cred, r, e, s)
        /\ ~setgroups_ok(cred)

C2_Witness ==
    /\ DropReturned
    /\ pc = "returned"
    /\ Get(old).uid = 0
    /\ Get(new_user).uid = 1001
    /\ Get(new_user).gid # Get(old).gid
    /\ cred.euid = 1001

(***************************************************************************)
(* C3: a reacquisition probe that succeeds is the last thing the process   *)
(* does: it exits at once, and no later stage runs.                        *)
(***************************************************************************)
C3_ReacquisitionIsFatal ==
    \A i \in 1..Len(log) :
        log[i] \in Reacquired => (i = Len(log) /\ pc = "exit")

C3_Witness ==
    /\ pc = "exit"
    /\ log # <<>>
    /\ Last(log) = "drop:uid_reacquired"
    /\ Logged("drop:gid_probe_skipped")

(***************************************************************************)
(* C4: the steps of drop_privileges run in the one order capture, root     *)
(* check, setgroups, setresgid, setresuid, group probe, user probe, each   *)
(* at most once; a failed setgroups, setresgid or setresuid is the last    *)
(* thing the process does.                                                 *)
(***************************************************************************)
C4_DropOrder ==
    LET d == DropEvents(log)
    IN  /\ Len(d) <= 7
        /\ \A k \in 1..Len(d) : DropRank(d[k]) = k
        /\ \A i \in 1..Len(log) :
             log[i] \in DropFailures =>
                /\ i = Len(log)
                /\ pc = "exit"
                /\ NothingWritten

C4_Witness ==
    /\ pc = "exit"
    /\ log # <<>>
    /\ Last(log) = "drop:setresgid_failed"
    /\ Logged("drop:setgroups")

(***************************************************************************)
(* C5: for a target whose uid is 0, drop_privileges exits at its root      *)
(* check: setgroups, setresgid and setresuid are never called and the      *)
(* credentials never change.                                               *)
(***************************************************************************)
TargetIsSuperuser == new_user # None /\ Get(new_user).uid = 0

C5_RootTargetExitsUnchanged ==
    /\ [](TargetIsSuperuser =>
            /\ ~LoggedAny(PrivCalls)
            /\ pc \notin {"drop_setgroups", "drop_setresgid", "drop_setresuid",
                          "drop_probe_gid", "drop_probe_uid"}
            /\ (LoggedAny({"drop:target_not_root", "drop:target_is_root"}) =>
                   pc = "exit" /\ Last(log) = "drop:target_is_root"))
    /\ [][(new_user = None \/ Get(new_user).uid = 0) => cred' = cred]_vars

C5_Witness ==
    /\ TargetIsSuperuser
    /\ pc = "exit"
    /\ Last(log) = "drop:target_is_root"
    /\ Get(new_user).name = S_toor
    /\ cred.euid = 0 /\ cred.ruid = 1000

(***************************************************************************)
(* C6: whenever the account resolved from config.userName has uid 0, the   *)
(* invocation is rejected: it never returns normally and writes nothing    *)
(* to the mailbox store or to the output sink.                             *)
(***************************************************************************)
C6_SuperuserAlwaysRejected ==
    TargetIsSuperuser =>
        /\ pc # "returned"
        /\ store.new = <<>>
        /\ sink \in {None, Some(<<>>)}

(***************************************************************************)
(* C7, as claimed: parse_maildir_new_path runs before any privilege-       *)
(* changing call, so an invocation that ends on a malformed mailbox path   *)
(* has made none.                                                          *)
(***************************************************************************)
PathEvents == {"parse_path:ok", "parse_path:error"}

C7_PathBeforePrivChange ==
    \A i \in 1..Len(log) :
        log[i] \in PrivCalls =>
            \E j \in 1..(i - 1) : log[j] \in PathEvents

(***************************************************************************)
(* C7, amended: parse_maildir_new_path runs before any operation on the    *)
(* mailbox store but after the privilege drop: with DropPrivileges it runs *)
(* only once drop_privileges has completed, so an invocation that ends on  *)
(* a malformed mailbox path ends with every uid and gid of the process     *)
(* already equal to the target's.                                          *)
(***************************************************************************)
C7_PathAfterDropBeforeStore ==
    /\ \A i \in 1..Len(log) :
         log[i] \in StoreOps =>
            \E j \in 1..(i - 1) : log[j] = "parse_path:ok"
    /\ ctx.should_drop_privs = "DropPrivileges" =>
         \A i \in 1..Len(log) :
            log[i] \in PathEvents =>
               /\ DropCompleteIn(SubSeq(log, 1, i - 1))
               /\ {cred.ruid, cred.euid, cred.suid} = {Get(new_user).uid}
               /\ {cred.rgid, cred.egid, cred.sgid} = {Get(new_user).gid}

C7_Witness ==
    /\ ctx.should_drop_privs = "DropPrivileges"
    /\ pc = "exit"
    /\ log # <<>>
    /\ Last(log) = "parse_path:error"
    /\ Get(old).uid = 0
    /\ cred.euid = 1002

(***************************************************************************)
(* C8: an invocation whose resolved sender or resolved recipient is empty  *)
(* or holds a character outside '!'..'~' exits there, having written       *)
(* nothing to the mailbox store or the output sink; an implausible -f is   *)
(* rejected, never replaced by the current user's name.                    *)
(***************************************************************************)
Graphic(s) == s # <<>> /\ \A i \in 1..Len(s) : s[i] \in 33..126

SenderEvents == {"from_address:ok", "from_address:implausible"}
RecipientEvents == {"to_address:ok", "to_address:implausible"}

ResolvedSender ==
    IF IsSome(sender_env) THEN Get(sender_env) ELSE Get(get_current_user(cred))
ResolvedRecipient ==
    IF IsSome(to_arg) THEN Get(to_arg) ELSE Get(config).userName

C8_ImplausibleAddressRefused ==
    /\ (LoggedAny(SenderEvents) /\ ~Graphic(ResolvedSender)) =>
          /\ pc = "exit"
          /\ Last(log) = "from_address:implausible"
          /\ from_address = None
          /\ NothingWritten
    /\ (LoggedAny(RecipientEvents) /\ ~Graphic(ResolvedRecipient)) =>
          /\ pc = "exit"
          /\ Last(log) = "to_address:implausible"
          /\ to_address = None
          /\ NothingWritten
    /\ (from_address # None /\ IsSome(sender_env)) => from_address = sender_env

C8_Witness ==
    /\ pc = "exit"
    /\ sender_env = Some(S_a_space_b)
    /\ log # <<>>
    /\ Last(log) = "from_address:implausible"
    /\ from_address = None

(***************************************************************************)
(* C9: parse_maildir_new_path reports the first check that fails, in the   *)
(* order not absolute; fewer than two components or last component not     *)
(* `new`; second-to-last component not `Maildir`.  Otherwise it returns    *)
(* the input without its final component, which is absolute and ends in a  *)
(* `Maildir` component.                                                    *)
(***************************************************************************)
IsPrefix(a, b) == Len(a) <= Len(b) /\ SubSeq(b, 1, Len(a)) = a

C9_PathChecksInOrder ==
    (call.fn = "parse_maildir_new_path" /\ call.ret # None) =>
    LET p == call.arg
        r == Get(call.ret)
        cs == components(p)
        n == Len(cs)
    IN  IF Len(p) = 0 \/ p[1] # 47
        THEN ~r.ok /\ r.err = "is not an absolute path"
        ELSE IF n < 2 \/ cs[n].os_str # S_new
        THEN ~r.ok /\ r.err \in {"does not end in /Maildir/new",
                                 "does not end in 'new'"}
        ELSE IF cs[n - 1].os_str # S_Maildir
        THEN ~r.ok /\ r.err = "does not have 'Maildir' as the second-to-last component"
        ELSE /\ r.ok
             /\ components(r.val) = SubSeq(cs, 1, n - 1)
             /\ IsPrefix(r.val, p)
             /\ r.val[1] = 47
             /\ Last(components(r.val)).os_str = S_Maildir
             /\ (p = P_home_good =>
                   r.val = Concat(<<S_slash, S_home, S_slash, S_u, S_slash, S_Maildir>>))

C9_Witness ==
    /\ call.fn = "parse_maildir_new_path"
    /\ call.arg = P_home_good
    /\ call.ret # None
    /\ Get(call.ret).ok
    /\ Get(call.ret).val = Concat(<<S_slash, S_home, S_slash, S_u, S_slash, S_Maildir>>)

(***************************************************************************)
(* C10: is_plausible_string(s) is true exactly when s is non-empty and     *)
(* every character lies in 0x21..0x7E; it is false for the empty string    *)
(* and for a string holding a space, a tab, a control character or a       *)
(* non-ASCII character.                                                    *)
(***************************************************************************)
AsciiWhitespace == {9, 10, 12, 13, 32}
IsControl(c) == c < 32 \/ c = 127
IsNonAscii(c) == c > 127

C10_PlausibleIffGraphic ==
    (call.fn = "is_plausible_string" /\ call.ret # None) =>
    LET s == call.arg
        r == Get(call.ret)
    IN  /\ r = (Len(s) > 0 /\ \A i \in 1..Len(s) : s[i] \in 33..126)
        /\ (s = <<>> => r = FALSE)
        /\ (\E i \in 1..Len(s) :
               s[i] \in AsciiWhitespace \/ IsControl(s[i]) \/ IsNonAscii(s[i]))
           => r = FALSE

C10_Witness ==
    /\ call.fn = "is_plausible_string"
    /\ call.arg = <<64, 9, 64>>
    /\ call.ret = Some(FALSE)

(***************************************************************************)
(* Reading a message: its lines, its header block, its body.               *)
(***************************************************************************)
\* where the first line of bytes ends
FirstLineEnd(bytes) ==
    IF \E i \in 1..Len(bytes) : bytes[i] = 10
    THEN CHOOSE i \in 1..Len(bytes) :
            bytes[i] = 10 /\ \A j \in 1..(i - 1) : bytes[j] # 10
    ELSE Len(bytes)

\* the lines of bytes, each with its line feed; the last may lack one
RECURSIVE LinesOf(_)
LinesOf(bytes) ==
    IF bytes = <<>> THEN <<>>
    ELSE LET n == FirstLineEnd(bytes)
         IN  <<SubSeq(bytes, 1, n)>> \o LinesOf(SubSeq(bytes, n + 1, Len(bytes)))

IsBlankLine(l) == l = <<10>> \/ l = <<13, 10>>

\* index of the first blank line of ls, Len(ls) + 1 if there is none
FirstBlank(ls) ==
    IF \E i \in 1..Len(ls) : IsBlankLine(ls[i])
    THEN CHOOSE i \in 1..Len(ls) :
            IsBlankLine(ls[i]) /\ \A j \in 1..(i - 1) : ~IsBlankLine(ls[j])
    ELSE Len(ls) + 1

HasBlankLine(bytes) == FirstBlank(LinesOf(bytes)) <= Len(LinesOf(bytes))
HeaderLines(bytes) ==
    SubSeq(LinesOf(bytes), 1, FirstBlank(LinesOf(bytes)) - 1)
HeaderBytes(bytes) == Concat(HeaderLines(bytes))
BodyBytes(bytes) ==
    Concat(SubSeq(LinesOf(bytes), FirstBlank(LinesOf(bytes)) + 1,
                  Len(LinesOf(bytes))))
LinesWith(ls, prefix) == SelectSeq(ls, LAMBDA l : IsPrefix(prefix, l))
EndsWithLF(bytes) == bytes # <<>> /\ Last(bytes) = 10

\* the call of write_message under SpecMessage: its input, its output
MsgDone == call.fn = "write_message" /\ call.ret # None
MsgIn == call.arg.data
MsgOut == Get(call.ret).out
InHeader == HeaderLines(MsgIn)
OutHeader == HeaderLines(MsgOut)
S_ReceivedColon == SubSeq(S_Received, 1, 9)
FreshReceived == make_received_header(S_bob, S_u, call.arg.time)
SynthDate == Concat(<<S_Date, to_rfc2822(call.arg.time), S_LF>>)
SynthFrom == Concat(<<S_From, S_u, S_LF>>)

(***************************************************************************)
(* C11 as stated: the output header block has exactly one line starting    *)
(* with "Received:", the fresh one, in first place, whatever the input     *)
(* holds.  Violated: a "Received:" line of the input is copied like any    *)
(* other header line.                                                      *)
(***************************************************************************)
C11_ExactlyOneReceived ==
    MsgDone =>
        /\ Len(LinesWith(OutHeader, S_ReceivedColon)) = 1
        /\ OutHeader[1] = FreshReceived

(***************************************************************************)
(* C11, amended: the first line of the output is the freshly generated     *)
(* "Received:" line; the "Received:" lines of the input header block are   *)
(* copied after it, in order, so the output header block holds one more    *)
(* "Received:" line than the input header block.                           *)
(***************************************************************************)
C11_FreshReceivedFirst ==
    MsgDone =>
        LET inR == LinesWith(InHeader, S_ReceivedColon)
            outR == LinesWith(OutHeader, S_ReceivedColon)
        IN  /\ OutHeader # <<>>
            /\ OutHeader[1] = FreshReceived
            /\ Len(outR) = 1 + Len(inR)
            /\ \A k \in 1..Len(inR) : IsPrefix(inR[k], outR[k + 1])

C11_Witness ==
    /\ MsgDone
    /\ Len(LinesWith(InHeader, S_ReceivedColon)) = 1
    /\ Len(LinesWith(OutHeader, S_ReceivedColon)) = 2
    /\ HasBlankLine(MsgIn)

(***************************************************************************)
(* C12 as stated: when the input header block has a line starting with     *)
(* "From: ", the output header block has exactly one such line, and it is  *)
(* that line of the input, byte for byte.  Violated: every "From: " line   *)
(* of the input is copied, so two of them give two.                        *)
(***************************************************************************)
C12_ExactlyOneFrom ==
    (MsgDone /\ LinesWith(InHeader, S_From) # <<>>) =>
        LinesWith(OutHeader, S_From) = <<LinesWith(InHeader, S_From)[1]>>

(***************************************************************************)
(* C12, amended: when the input header block has lines starting with       *)
(* "From: ", the output header block has as many, in the same order, none  *)
(* of them synthesized: each is the input's line byte for byte when that   *)
(* line ends in a line feed, and begins with the input's bytes when it is  *)
(* the unterminated last line of the input.                                *)
(***************************************************************************)
C12_InputFromLinesKept ==
    (MsgDone /\ LinesWith(InHeader, S_From) # <<>>) =>
        LET inF == LinesWith(InHeader, S_From)
            outF == LinesWith(OutHeader, S_From)
        IN  /\ Len(outF) = Len(inF)
            /\ \A k \in 1..Len(inF) :
                  /\ IsPrefix(inF[k], outF[k])
                  /\ EndsWithLF(inF[k]) => outF[k] = inF[k]

C12_Witness ==
    /\ MsgDone
    /\ Len(LinesWith(InHeader, S_From)) = 2
    /\ LinesWith(OutHeader, S_From) = LinesWith(InHeader, S_From)

(***************************************************************************)
(* C13 as stated: for every input the output header block has exactly one  *)
(* line beginning with "Date: ".  Violated: two "Date: " lines of the      *)
(* input are both copied, and a synthesized Date written after an          *)
(* unterminated last header line begins no line at all.                    *)
(***************************************************************************)
C13_ExactlyOneDate ==
    MsgDone => Len(LinesWith(OutHeader, S_Date)) = 1

(***************************************************************************)
(* C13, amended: when the input header block has lines starting with       *)
(* "Date: ", the output header block has as many, copied and in the same   *)
(* order, and no synthesized one; otherwise one synthesized Date follows   *)
(* the copied header bytes directly, and begins a line of its own exactly  *)
(* when those bytes are empty or end in a line feed.                       *)
(***************************************************************************)
C13_DateCopiedOrSynthesized ==
    MsgDone =>
        LET inD == LinesWith(InHeader, S_Date)
            outD == LinesWith(OutHeader, S_Date)
            copied == HeaderBytes(MsgIn)
        IN  IF inD # <<>>
            THEN /\ Len(outD) = Len(inD)
                 /\ \A k \in 1..Len(inD) :
                       /\ IsPrefix(inD[k], outD[k])
                       /\ EndsWithLF(inD[k]) => outD[k] = inD[k]
            ELSE /\ IsPrefix(Concat(<<FreshReceived, copied, SynthDate>>), MsgOut)
                 /\ Len(outD) = IF copied = <<>> \/ EndsWithLF(copied)
                                 THEN 1 ELSE 0
                 /\ outD # <<>> => outD[1] = SynthDate

\* two Date lines in the input, both copied
C13_Witness ==
    /\ MsgDone
    /\ Len(LinesWith(InHeader, S_Date)) = 2
    /\ LinesWith(OutHeader, S_Date) = LinesWith(InHeader, S_Date)

(***************************************************************************)
(* C14: the bytes written after the blank line that ends the output header *)
(* block are the bytes of the input after its first blank line, unchanged: *)
(* line endings as they were, no line feed added to an unterminated last   *)
(* line, nothing when the input has no blank line.                         *)
(***************************************************************************)
C14_BodyVerbatim ==
    MsgDone =>
        /\ BodyBytes(MsgOut) = BodyBytes(MsgIn)
        /\ HasBlankLine(MsgIn) =>
              /\ HasBlankLine(MsgOut)
              /\ MsgOut = Concat(<<HeaderBytes(MsgOut), S_LF, BodyBytes(MsgIn)>>)

\* a body of two lines, the first ending in CR LF, the last unterminated
C14_Witness ==
    /\ MsgDone
    /\ BodyBytes(MsgIn) = Concat(<<S_CR, S_LF, S_x>>)
    /\ BodyBytes(MsgOut) = Concat(<<S_CR, S_LF, S_x>>)

(***************************************************************************)
(* C15: write_headers appends its own Date exactly when no line of the     *)
(* input header block starts with "Date: ", and its own "From: <sender>"   *)
(* exactly when none starts with "From: "; what it appends comes after     *)
(* all the copied header bytes, Date before From, and before the blank     *)
(* line; the Date it appends carries the date text of the Received line.   *)
(***************************************************************************)
DateTextOfReceived ==
    LET r == OutHeader[1]
        n == Len(to_rfc2822(call.arg.time))
    IN  SubSeq(r, Len(r) - n, Len(r) - 1)

C15_SynthesizedWhenMissing ==
    MsgDone =>
        LET date == IF LinesWith(InHeader, S_Date) = <<>>
                    THEN Concat(<<S_Date, DateTextOfReceived, S_LF>>) ELSE <<>>
            from == IF LinesWith(InHeader, S_From) = <<>>
                    THEN SynthFrom ELSE <<>>
        IN  /\ OutHeader[1] = FreshReceived
            /\ MsgOut = Concat(<<OutHeader[1], HeaderBytes(MsgIn), date, from,
                                 S_LF, BodyBytes(MsgIn)>>)

\* header "x", body "x": Date and From are both appended, in that order
C15_Witness ==
    /\ MsgDone
    /\ MsgIn = Concat(<<S_x, S_LF, S_LF, S_x>>)
    /\ MsgOut = Concat(<<FreshReceived, S_x, S_LF, SynthDate, SynthFrom,
                         S_LF, S_x>>)

(***************************************************************************)
(* C16 as stated: for the input "From: a@x\n\nhello\n", sender u,          *)
(* recipient bob and clock T, the output is the Received line for          *)
(* bob/u/T, "From: a@x", the blank line and the body "hello\n", with no    *)
(* other header line.  Violated: the input has no Date, so one is added.   *)
(***************************************************************************)
ReceivedBobU ==
    Concat(<<S_Received_for, S_bob, S_with_local, S_u, S_semi,
             to_rfc2822(call.arg.time), S_LF>>)

C16_OnlyTraceHeaderAdded ==
    (MsgDone /\ MsgIn = M_from_hello) =>
        MsgOut = Concat(<<ReceivedBobU, S_From, S_addr, S_LF, S_LF, S_hello>>)

(***************************************************************************)
(* C16, amended: for that input the output is the Received line for        *)
(* bob/u/T, "From: a@x", a synthesized "Date: <T>" line, the blank line    *)
(* and the body "hello\n": no From is added, a Date is.                    *)
(***************************************************************************)
C16_FromKeptDateAdded ==
    (MsgDone /\ MsgIn = M_from_hello) =>
        MsgOut = Concat(<<ReceivedBobU, S_From, S_addr, S_LF,
                          S_Date, to_rfc2822(call.arg.time), S_LF,
                          S_LF, S_hello>>)

C16_Witness ==
    /\ MsgDone
    /\ MsgIn = M_from_hello
    /\ call.arg.time = 1
    /\ BodyBytes(MsgOut) = S_hello
    /\ Len(OutHeader) = 3

(***************************************************************************)
(* C17: for an input with no blank line (the zero-byte input included)     *)
(* the output ends with a blank line, its only one, and nothing follows;   *)
(* for the zero-byte input the header block is the Received line, the      *)
(* synthesized Date and the synthesized From.  Violated when the last      *)
(* header line of the input lacks its line feed and nothing is             *)
(* synthesized: the line feed written as terminator then ends that line.   *)
(***************************************************************************)
C17_TerminatorWithoutBody ==
    (MsgDone /\ ~HasBlankLine(MsgIn)) =>
        LET ls == LinesOf(MsgOut)
        IN  /\ ls # <<>>
            /\ IsBlankLine(ls[Len(ls)])
            /\ FirstBlank(ls) = Len(ls)
            /\ BodyBytes(MsgOut) = <<>>
            /\ MsgIn = <<>> =>
                  MsgOut = Concat(<<FreshReceived, SynthDate, SynthFrom, S_LF>>)

(***************************************************************************)
(* C18: with the mailbox store as target, store_new is invoked at most     *)
(* once, and only with the whole transformed message of an input that was  *)
(* read to its end; when reading or transforming fails, store_new is not   *)
(* invoked and the store holds no message, whole or partial.               *)
(***************************************************************************)
StoreNewCalls ==
    SelectSeq(log, LAMBDA e : e \in {"deliver:store_new",
                                     "deliver:store_new_failed"})

\* the whole messages: what the inputs that read without error turn into
WholeMessages ==
    {write_message(Stream(inp.data, 0), Get(to_address), Get(from_address),
                   ctx.received_time).out : inp \in Inputs}

C18_StoreNewOnceWholeMessage ==
    /\ Len(StoreNewCalls) <= 1
    /\ Len(store.new) <= 1
    /\ store.new # <<>> =>
          /\ Logged("deliver:store_new")
          /\ ~Logged("deliver:construct_failed")
          /\ store.new[1] \in WholeMessages
    /\ Logged("deliver:construct_failed") =>
          /\ StoreNewCalls = <<>>
          /\ store.new = <<>>
          /\ pc = "exit"

C18_Witness ==
    /\ pc = "returned"
    /\ ctx.message_destination = "Maildir"
    /\ StoreNewCalls = <<"deliver:store_new">>
    /\ Len(store.new) = 1
    /\ BodyBytes(store.new[1]) = S_hello

(***************************************************************************)
(* C19: whichever the target, an invocation that fails has made no part    *)
(* of the message visible: the store holds no message and the output sink  *)
(* has received no byte.  Violated with the output sink as target:         *)
(* write_message writes to the sink as it reads, so what it wrote before   *)
(* a read error stays written.                                             *)
(***************************************************************************)
C19_NothingVisibleOnFailure ==
    pc = "exit" =>
        /\ store.new = <<>>
        /\ sink # None => Get(sink) = <<>>

(***************************************************************************)
(* C20: the message goes to at most one target: to the mailbox store only  *)
(* when message_destination = Maildir and no output sink is supplied, to   *)
(* the output sink only when message_destination = OutputStream and a sink *)
(* is supplied; with Maildir and a sink, or OutputStream and no sink, the  *)
(* invocation exits with an error and neither target receives a byte.      *)
(***************************************************************************)
StoreWritten == store.new # <<>>
SinkWritten == sink # None /\ Get(sink) # <<>>
InconsistentTarget ==
    \/ ctx.message_destination = "Maildir" /\ sink # None
    \/ ctx.message_destination = "OutputStream" /\ sink = None

C20_AtMostOneTarget ==
    /\ ~(StoreWritten /\ SinkWritten)
    /\ StoreWritten => ctx.message_destination = "Maildir" /\ sink = None
    /\ SinkWritten => ctx.message_destination = "OutputStream"
    /\ LoggedAny({"deliver:store_new", "deliver:store_new_failed",
                  "deliver:construct_failed"}) =>
          ctx.message_destination = "Maildir" /\ sink = None
    /\ LoggedAny({"deliver:written", "deliver:write_failed"}) =>
          ctx.message_destination = "OutputStream" /\ sink # None
    /\ InconsistentTarget =>
          /\ ~StoreWritten /\ ~SinkWritten
          /\ pc # "returned"

C20_Witness ==
    /\ InconsistentTarget
    /\ ctx.message_destination = "Maildir"
    /\ Logged("deliver:invalid_combination")
    /\ pc = "exit"
    /\ sink = Some(<<>>)
    /\ store.new = <<>>

(***************************************************************************)
(* C21: when the configuration cannot be loaded, has no general section or *)
(* lacks mailDir or userName, read_config_ini fails, and when userName     *)
(* names no account the lookup fails: the invocation then exits before any *)
(* call that changes the process's ids and before anything is written to   *)
(* the mailbox store or the output sink.  When both keys are there,        *)
(* read_config_ini returns exactly their two values.                       *)
(***************************************************************************)
ConfigRead == call.fn = "read_config_ini"
ConfigComplete(file) ==
    /\ file.loaded
    /\ file.general # None
    /\ {"mailDir", "userName"} \subseteq DOMAIN Get(file.general)

C21_ConfigOrUserErrorIsFatal ==
    /\ ConfigRead =>
          LET file == call.arg
              r == Get(call.ret)
          IN  IF ConfigComplete(file)
              THEN /\ r.ok
                   /\ r.val = [mailDir |-> Get(file.general)["mailDir"],
                               userName |-> Get(file.general)["userName"]]
                   /\ config = Some(r.val)
              ELSE /\ ~r.ok
                   /\ config = None
                   /\ pc = "exit"
                   /\ Last(log) = "config:error"
    /\ LoggedAny({"config:error", "from_name:no_such_user"}) =>
          /\ pc = "exit"
          /\ ~LoggedAny(PrivCalls \cup StoreOps)
          /\ old = None
          /\ NothingWritten
    /\ (config # None /\ User_from_name(Get(config).userName) = None) =>
          /\ pc \in {"check_root_name", "from_name", "exit"}
          /\ ~LoggedAny(PrivCalls \cup StoreOps)
          /\ NothingWritten

\* a configuration with mailDir and another key, but no userName
C21_Witness ==
    /\ ConfigRead
    /\ call.arg.loaded
    /\ call.arg.general # None
    /\ DOMAIN Get(call.arg.general) = {"mailDir", "other"}
    /\ pc = "exit"
    /\ Last(log) = "config:error"

InNew == {f \in files : f.dir = "new"}
Succeeded == {p \in Peers : peers[p].pc = "done"}
OwnMessage(p) == write_message(peers[p].input, S_bob, S_u, PeerTime(p)).out

DeliveriesIntact ==
    /\ \A p \in Succeeded :
          /\ Cardinality({f \in InNew : Some(f.name) = peers[p].name}) = 1
          /\ \A f \in InNew :
                Some(f.name) = peers[p].name => f.bytes = OwnMessage(p)
    /\ \A f \in InNew : \E p \in Succeeded : Some(f.name) = peers[p].name
    /\ Cardinality(InNew) = Cardinality(Succeeded)
    /\ \A p \in Peers : \A q \in Peers \ {p} :
          peers[p].name # None => peers[p].name # peers[q].name

OnlyStoreShared ==
    /\ InNew \subseteq files'
    /\ \E p \in Peers : \A q \in Peers \ {p} : peers'[q] = peers[q]

(***************************************************************************)
(* C22: however two invocations delivering to the same Maildir interleave, *)
(* each one that succeeds leaves exactly one new file in new/, holding     *)
(* exactly its own transformed message; the files in new/ are those of the *)
(* invocations that succeeded, a published file never changes, and a step  *)
(* of one invocation changes nothing of the other but the shared store.    *)
(***************************************************************************)
C22_OwnMessageOncePerSuccess ==
    []DeliveriesIntact /\ [][OnlyStoreShared]_vars

\* both have succeeded, the second one's file published first
C22_Witness ==
    /\ Succeeded = Peers
    /\ Cardinality(InNew) = 2
    /\ peers[1].input = peers[2].input
    /\ \A f \in InNew : Some(f.name) = peers[2].name => f.bytes = OwnMessage(2)

(***************************************************************************)
(* C23: when -b is given with an argument other than "m", the invocation   *)
(* exits with an error and delivers nothing: it never returns normally,    *)
(* the store receives no message and the output sink no byte.  Violated:   *)
(* the value of -b is parsed and never read.                               *)
(***************************************************************************)
OtherMode == cli_b # None /\ Get(cli_b) # S_m

C23_OtherModeDeliversNothing ==
    OtherMode =>
        /\ pc # "returned"
        /\ store.new = <<>>
        /\ ~SinkWritten

(***************************************************************************)
(* C24 as stated: with no -f, whenever the drop was performed the sender   *)
(* is the name of the configured target user.  Violated: the name is       *)
(* looked up from the uid, and two accounts can share a uid.               *)
(***************************************************************************)
DefaultSenderUsed == sender_env = None /\ Logged("from_address:ok")

C24_DefaultSenderIsConfiguredUser ==
    (DefaultSenderUsed /\ DropReturned) =>
        from_address = Some(Get(config).userName)

(***************************************************************************)
(* C24, amended: with no -f, the sender is the name under which the        *)
(* account database first lists the process's real uid at the time main    *)
(* resolves the sender, which is after the drop: when the drop was         *)
(* performed that uid is the target user's, so the sender is the           *)
(* configured user's name unless an account listed earlier shares its uid; *)
(* without the drop it is the uid the invocation started with.             *)
(***************************************************************************)
FirstNameOf(uid) ==
    LET i == CHOOSE k \in 1..Len(Passwd) :
                /\ Passwd[k].uid = uid
                /\ \A j \in 1..(k - 1) : Passwd[j].uid # uid
    IN  Passwd[i].name

C24_DefaultSenderIsNameOfCurrentUid ==
    DefaultSenderUsed =>
        /\ from_address = Some(FirstNameOf(cred.ruid))
        /\ DropReturned =>
              /\ DropCompleteIn(log)
              /\ cred.ruid = Get(new_user).uid
              /\ (\A k \in 1..Len(Passwd) :
                     Passwd[k].uid = Get(new_user).uid =>
                        Passwd[k].name = Get(config).userName)
                 => from_address = Some(Get(config).userName)
        /\ ~DropReturned => old = None

\* started by root, dropped to bob: the sender is bob, not root
C24_Witness ==
    /\ DefaultSenderUsed
    /\ DropReturned
    /\ old = Some([uid |-> 0, gid |-> 0])
    /\ Get(config).userName = S_bob
    /\ from_address = Some(S_bob)
    /\ pc = "returned"

(***************************************************************************)
(* C25: process_existing_headers writes exactly the bytes of its input     *)
(* that come before the first blank line, leaves the blank line unwritten, *)
(* and has read the input up to and including that blank line and no       *)
(* further: the next read starts at the first body byte.                   *)
(***************************************************************************)
HdrDone == call.fn = "process_existing_headers" /\ call.ret # None
HdrIn == call.arg
HdrRet == Get(call.ret)
Unread == SubSeq(HdrIn, HdrRet.pos, Len(HdrIn))

C25_HeaderBytesCopiedBlankConsumed ==
    HdrDone =>
        /\ HdrRet.ok
        /\ HdrRet.out = HeaderBytes(HdrIn)
        /\ Unread = BodyBytes(HdrIn)
        /\ HdrRet.pos - 1 =
              Len(HeaderBytes(HdrIn))
              + (IF HasBlankLine(HdrIn)
                 THEN Len(LinesOf(HdrIn)[FirstBlank(LinesOf(HdrIn))]) ELSE 0)

\* a header line, the blank line, a body that starts with "From: "
C25_Witness ==
    /\ HdrDone
    /\ HdrIn = Concat(<<S_Date, S_LF, S_LF, S_From>>)
    /\ HdrRet.out = Concat(<<S_Date, S_LF>>)
    /\ Unread = S_From

(***************************************************************************)
(* C26: process_existing_headers returns has_from exactly when a line      *)
(* before the first blank line begins with the bytes "From: ", and         *)
(* has_date exactly when one begins with "Date: ": "from: ", " From: " and *)
(* "From:" without the space do not count, nor does any line after the     *)
(* first blank line.                                                       *)
(***************************************************************************)
C26_LiteralAnchoredPrefix ==
    HdrDone =>
        /\ HdrRet.has_from <=> LinesWith(HeaderLines(HdrIn), S_From) # <<>>
        /\ HdrRet.has_date <=> LinesWith(HeaderLines(HdrIn), S_Date) # <<>>
        /\ (\A i \in 1..Len(HeaderLines(HdrIn)) :
               \/ IsPrefix(S_from_lower, HeaderLines(HdrIn)[i])
               \/ IsPrefix(S_space, HeaderLines(HdrIn)[i])
               \/ HeaderLines(HdrIn)[i] = S_From_colon \o S_LF)
            => ~HdrRet.has_from /\ ~HdrRet.has_date

\* "from: ", then a blank line, then "From: " in the body
C26_Witness ==
    /\ HdrDone
    /\ HdrIn = Concat(<<S_from_lower, S_LF, S_LF, S_From>>)
    /\ ~HdrRet.has_from
    /\ ~HdrRet.has_date

(***************************************************************************)
(* C27: for every input, every line of the output header block ends in a   *)
(* line feed, and a synthesized Date or From is a line of its own in that  *)
(* block, not the tail of a copied line.  Violated when the last header    *)
(* line of the input reaches end-of-stream without a line feed: what is    *)
(* written next continues that line.                                       *)
(***************************************************************************)
IsLineOf(l, ls) == \E i \in 1..Len(ls) : ls[i] = l

C27_SynthesizedHeadersOwnLine ==
    MsgDone =>
        /\ \A i \in 1..Len(OutHeader) : EndsWithLF(OutHeader[i])
        /\ LinesWith(InHeader, S_Date) = <<>> => IsLineOf(SynthDate, OutHeader)
        /\ LinesWith(InHeader, S_From) = <<>> => IsLineOf(SynthFrom, OutHeader)

(***************************************************************************)
(* C28: whenever a message has been written, to the store or to the sink,  *)
(* the sender and the recipient in it, defaults included, consist of       *)
(* ASCII graphic characters only, so the Received header is exactly the    *)
(* first line of the message, and a synthesized From is one line.          *)
(***************************************************************************)
MessageWritten == StoreWritten \/ SinkWritten
Written == IF StoreWritten THEN store.new[1] ELSE Get(sink)

C28_AddressesInMessagePlausible ==
    MessageWritten =>
        /\ from_address # None /\ Graphic(Get(from_address))
        /\ to_address # None /\ Graphic(Get(to_address))
        /\ Get(from_address) = ResolvedSender
        /\ Get(to_address) = ResolvedRecipient
        /\ LinesOf(Written)[1] =
              Concat(<<S_Received_for, Get(to_address), S_with_local,
                       Get(from_address), S_semi, to_rfc2822(ctx.received_time),
                       S_LF>>)
        /\ \A i \in 1..Len(LinesOf(Written)) :
              IsPrefix(S_From, LinesOf(Written)[i]) =>
                 LinesOf(Written)[i] \in {S_From \o Get(from_address) \o S_LF,
                                          S_From \o S_addr \o S_LF}

\* both addresses are the defaults, and the From line is the synthesized one
C28_Witness ==
    /\ StoreWritten
    /\ sender_env = None
    /\ to_arg = None
    /\ from_address = Some(S_u)
    /\ to_address = Some(S_amy)
    /\ IsLineOf(S_From \o S_u \o S_LF, LinesOf(Written))

(***************************************************************************)
(* C29: every invocation terminates, by returning or by exiting with an    *)
(* error; each step takes main to a later stage, so no stage is entered    *)
(* twice or retried; an invocation that returned has committed its message *)
(* exactly once, to the store or to the sink, and one that exited has not  *)
(* committed to the store.                                                 *)
(***************************************************************************)
Stages ==
    << "prog_name", "parse_cli", "init_log", "read_config", "check_root_name",
       "from_name" >> \o DropOrder \o MainOrder \o << "returned" >>

StageRank(stage) ==
    IF stage = "exit" THEN Len(Stages)
    ELSE CHOOSE k \in 1..Len(Stages) : Stages[k] = stage

Terminated == pc \in {"returned", "exit"}
Commits ==
    SelectSeq(log, LAMBDA e : e \in {"deliver:store_new", "deliver:written"})

CommittedOnce ==
    /\ pc = "returned" =>
          /\ Len(Commits) = 1
          /\ Len(store.new) + (IF SinkWritten THEN 1 ELSE 0) = 1
    /\ pc = "exit" => Commits = <<>> /\ store.new = <<>>
    /\ Len(Commits) <= 1

C29_TerminatesCommittedOnce ==
    /\ <>Terminated
    /\ []CommittedOnce
    /\ [][StageRank(pc') > StageRank(pc)]_vars

C29_Witness ==
    /\ pc = "returned"
    /\ Commits = <<"deliver:store_new">>
    /\ Len(log) = Len(Stages) - 1

====
